---- MODULE Spec2Model ----
(***************************************************************************)
(* A model of tax_tool.py: the estimate of a couple's joint federal tax    *)
(* and the per-spouse withholding targets.                                  *)
(*                                                                          *)
(* Python floats are modelled as exact rationals [n |-> numerator,          *)
(* d |-> denominator], kept in lowest terms with d > 0.  d = 0 is used for  *)
(* the two values that are no finite number: Inf (n = 1), the upper limit   *)
(* of the last bracket, and NaR (n = 0), the result of a division by zero,  *)
(* which Python raises as ZeroDivisionError.  Binary rounding of floats is  *)
(* not modelled: every statement about amounts below is a statement about   *)
(* the exact values.                                                        *)
(*                                                                          *)
(* Text read from the CSV file is modelled as a sequence of pieces: a       *)
(* piece is " " (white space) or a run of other characters for the text     *)
(* columns, and a single character for the numeric columns.                 *)
(***************************************************************************)
EXTENDS Integers, Sequences, FiniteSets, TLC

VARIABLES
    pc,                 \* where main() is: idle, compute_results, ..., done
    args,               \* the parsed command line of the current run
    file,               \* the CSV file at the path given on the command line
    inputs,             \* list[PaystubInput] returned by load_inputs
    idx,                \* position of the for-loop over inputs (1-based)
    taxable_by_spouse,  \* the dict built by compute_taxable_income
    total_taxable,      \* compute_results: sum(taxable_by_spouse.values())
    total_tax,          \* compute_results: compute_federal_tax(total_taxable)
    results,            \* list[TaxResult] built by compute_results
    error,              \* message of the exception that ended the run, or ""
    stdout,             \* what the run printed
    calls,              \* the functions entered so far in this run, in order
    fed                 \* a direct call of compute_federal_tax (SpecFederal)

vars == <<pc, args, file, inputs, idx, taxable_by_spouse, total_taxable,
          total_tax, results, error, stdout, calls, fed>>

----------------------------------------------------------------------------
(* Exact arithmetic standing for Python's float operations.                *)

Abs(x) == IF x < 0 THEN -x ELSE x

Sign(x) == IF x < 0 THEN -1 ELSE IF x > 0 THEN 1 ELSE 0

RECURSIVE GCD(_, _)
GCD(a, b) == IF b = 0 THEN a ELSE GCD(b, a % b)

Norm(n, d) ==
    IF d = 0 THEN [n |-> Sign(n), d |-> 0]
    ELSE LET g == GCD(Abs(n), Abs(d))
             s == Sign(d)
         IN  [n |-> s * (n \div g), d |-> s * (d \div g)]

R(i) == [n |-> i, d |-> 1]

Zero == R(0)

Inf == [n |-> 1, d |-> 0]

NaR == [n |-> 0, d |-> 0]

IsNaR(a) == a.d = 0 /\ a.n = 0

RAdd(a, b) ==
    IF IsNaR(a) \/ IsNaR(b) THEN NaR
    ELSE IF a.d = 0 THEN a
    ELSE IF b.d = 0 THEN b
    ELSE LET g == GCD(a.d, b.d)
         IN  Norm(a.n * (b.d \div g) + b.n * (a.d \div g), (a.d \div g) * b.d)

RNeg(a) == [n |-> -a.n, d |-> a.d]

RSub(a, b) == RAdd(a, RNeg(b))

RMul(a, b) ==
    IF IsNaR(a) \/ IsNaR(b) THEN NaR
    ELSE IF a.d = 0 \/ b.d = 0 THEN Norm(a.n * b.n, 0)
    ELSE LET g1 == GCD(Abs(a.n), b.d)
             g2 == GCD(Abs(b.n), a.d)
         IN  Norm((a.n \div g1) * (b.n \div g2), (a.d \div g2) * (b.d \div g1))

\* a / b; Python raises ZeroDivisionError when b is zero: NaR.
RDiv(a, b) ==
    IF IsNaR(a) \/ IsNaR(b) \/ b.n = 0 THEN NaR
    ELSE RMul(a, Norm(b.d, b.n))

RLe(a, b) ==
    LET g == GCD(a.d, b.d)
    IN  IF g = 0 THEN a.n * b.d <= b.n * a.d
        ELSE a.n * (b.d \div g) <= b.n * (a.d \div g)

RLt(a, b) == RLe(a, b) /\ a # b

RMax(a, b) == IF RLe(a, b) THEN b ELSE a

RMin(a, b) == IF RLe(a, b) THEN a ELSE b

----------------------------------------------------------------------------
(* Module constants of tax_tool.py.                                        *)

FREQUENCY_PERIODS ==
    [f \in {"weekly", "biweekly", "semi-monthly", "monthly"} |->
        CASE f = "weekly" -> 52
          [] f = "biweekly" -> 26
          [] f = "semi-monthly" -> 24
          [] f = "monthly" -> 12]

Pct(p) == Norm(p, 100)

\* Faulty variant: the 2023 standard deduction left in the 2024 profile.
Profile2024_stale_deduction ==
    [year |-> 2024,
     standard_deduction_mfj |-> R(27700),
     brackets_mfj |-> << <<R(22000), Pct(10)>>,
                         <<R(89450), Pct(12)>>,
                         <<R(190750), Pct(22)>>,
                         <<R(364200), Pct(24)>>,
                         <<R(462500), Pct(32)>>,
                         <<R(693750), Pct(35)>>,
                         <<Inf, Pct(37)>> >>]

Profile2024 ==
    [year |-> 2024,
     standard_deduction_mfj |-> R(29200),
     brackets_mfj |-> << <<R(22000), Pct(10)>>,
                         <<R(89450), Pct(12)>>,
                         <<R(190750), Pct(22)>>,
                         <<R(364200), Pct(24)>>,
                         <<R(462500), Pct(32)>>,
                         <<R(693750), Pct(35)>>,
                         <<Inf, Pct(37)>> >>]

TAX_PROFILES == [y \in {2024} |-> Profile2024]

TEMPLATE_HEADERS ==
    <<"spouse", "pay_frequency", "ytd_pay_periods", "ytd_gross",
      "ytd_pretax_deductions", "ytd_posttax_deductions", "ytd_federal_withheld">>

----------------------------------------------------------------------------
(* compute_federal_tax                                                     *)

\* Faulty variant: tax += taxable_income * rate, the whole remaining income taxed
\* at each bracket's rate.
RECURSIVE bracket_loop_whole_income(_, _, _, _, _, _)
bracket_loop_whole_income(brackets, k, taxable_income, tax, lower_limit, slices) ==
    IF k > Len(brackets) \/ RLe(taxable_income, Zero)
    THEN [tax |-> tax, slices |-> slices]
    ELSE LET upper_limit == brackets[k][1]
             rate == brackets[k][2]
             taxable_at_rate == RMin(RSub(upper_limit, lower_limit), taxable_income)
         IN  bracket_loop_whole_income(brackets, k + 1,
                          RSub(taxable_income, taxable_at_rate),
                          RAdd(tax, RMul(taxable_income, rate)),
                          upper_limit,
                          Append(slices, <<taxable_at_rate, rate,
                                           RMul(taxable_income, rate)>>))

\* The body of the for-loop over the brackets, from bracket k on, with the
\* loop's variables as they stand; returns the tax and, for each bracket
\* the loop entered, <<taxable_at_rate, rate, taxable_at_rate * rate>>.
RECURSIVE bracket_loop(_, _, _, _, _, _)
bracket_loop(brackets, k, taxable_income, tax, lower_limit, slices) ==
    IF k > Len(brackets) \/ RLe(taxable_income, Zero)
    THEN [tax |-> tax, slices |-> slices]
    ELSE LET upper_limit == brackets[k][1]
             rate == brackets[k][2]
             taxable_at_rate == RMin(RSub(upper_limit, lower_limit), taxable_income)
         IN  bracket_loop(brackets, k + 1,
                          RSub(taxable_income, taxable_at_rate),
                          RAdd(tax, RMul(taxable_at_rate, rate)),
                          upper_limit,
                          Append(slices, <<taxable_at_rate, rate,
                                           RMul(taxable_at_rate, rate)>>))

\* Faulty variant: the standard deduction is not subtracted.
after_deduction_none(taxable_income, profile) == RMax(Zero, taxable_income)

\* taxable_income = max(0.0, taxable_income - profile.standard_deduction_mfj)
after_deduction(taxable_income, profile) ==
    RMax(Zero, RSub(taxable_income, profile.standard_deduction_mfj))

federal_tax_walk(taxable_income, profile) ==
    bracket_loop(profile.brackets_mfj, 1,
                 after_deduction(taxable_income, profile), Zero, Zero, <<>>)

compute_federal_tax(taxable_income, profile) ==
    federal_tax_walk(taxable_income, profile).tax

----------------------------------------------------------------------------
(* Text of the CSV cells and its conversions.                              *)

RECURSIVE lstrip(_)
lstrip(s) == IF s # <<>> /\ Head(s) = " " THEN lstrip(Tail(s)) ELSE s

RECURSIVE rstrip(_)
rstrip(s) ==
    IF s # <<>> /\ s[Len(s)] = " " THEN rstrip(SubSeq(s, 1, Len(s) - 1)) ELSE s

\* str.strip(): leading and trailing white space removed.
strip(s) == rstrip(lstrip(s))

\* str.lower() of one piece, for the spellings the model's files use.
lower_piece(p) ==
    CASE p = "Weekly" -> "weekly"
      [] p = "BIWEEKLY" -> "biweekly"
      [] p = "Monthly" -> "monthly"
      [] OTHER -> p

lower(s) == [k \in 1..Len(s) |-> lower_piece(s[k])]

\* The Python str a sequence of pieces stands for.
RECURSIVE text(_)
text(s) == IF s = <<>> THEN "" ELSE Head(s) \o text(Tail(s))

digit_value(c) ==
    CASE c = "0" -> 0 [] c = "1" -> 1 [] c = "2" -> 2 [] c = "3" -> 3
      [] c = "4" -> 4 [] c = "5" -> 5 [] c = "6" -> 6 [] c = "7" -> 7
      [] c = "8" -> 8 [] c = "9" -> 9 [] OTHER -> -1

\* The value of a run of decimal digits after acc, or -1 if s is no such run.
RECURSIVE parse_digits(_, _)
parse_digits(s, acc) ==
    IF s = <<>> THEN acc
    ELSE IF digit_value(Head(s)) < 0 THEN -1
    ELSE parse_digits(Tail(s), 10 * acc + digit_value(Head(s)))

\* int(cell): white space stripped, an optional sign, decimal digits;
\* anything else raises ValueError (ok = FALSE).
parse_int(s) ==
    LET t == strip(s)
        signed == t # <<>> /\ Head(t) \in {"-", "+"}
        body == IF signed THEN Tail(t) ELSE t
        v == IF body = <<>> THEN -1 ELSE parse_digits(body, 0)
    IN  IF v < 0 THEN [ok |-> FALSE, v |-> 0]
        ELSE [ok |-> TRUE, v |-> IF signed /\ Head(t) = "-" THEN -v ELSE v]

\* float(cell), for the cells the model's files hold: the text of an integer.
parse_float(s) ==
    LET i == parse_int(s)
    IN  [ok |-> i.ok, v |-> R(i.v)]

----------------------------------------------------------------------------
(* Exceptions.  msg is the fixed part of the message.                      *)

NoError == [exc |-> "", raised_by |-> "", msg |-> ""]

Raise(exc, raised_by, msg) == [exc |-> exc, raised_by |-> raised_by, msg |-> msg]

MissingColumns == Raise("ValueError", "load_inputs", "Missing columns in CSV")

UnsupportedFrequency == Raise("ValueError", "load_inputs", "Unsupported pay_frequency")

BadNumber == Raise("ValueError", "load_inputs", "invalid literal")

WrongRowCount ==
    Raise("ValueError", "load_inputs", "Provide exactly two spouse rows in the CSV.")

NoSuchFile == Raise("FileNotFoundError", "load_inputs", "No such file or directory")

BadPeriods ==
    Raise("ValueError", "annualize", "ytd_pay_periods must be greater than zero.")

DivisionByZero == Raise("ZeroDivisionError", "compute_results", "float division by zero")

UnsupportedYear == Raise("ValueError", "main", "Unsupported tax year")

InputRequired ==
    Raise("SystemExit", "main", "--input is required unless --create-template is used.")

----------------------------------------------------------------------------
(* The CSV file: its header (fieldnames) and its data rows, each cell the  *)
(* text the file holds.  NoFile: there is no file at the path.             *)

NoFile == [fieldnames |-> {}, rows |-> <<>>, exists |-> FALSE]

CsvFile(fieldnames, rows) == [fieldnames |-> fieldnames, rows |-> rows, exists |-> TRUE]

Row(spouse, frequency, periods, gross, pretax, posttax, withheld) ==
    [spouse |-> spouse,
     pay_frequency |-> frequency,
     ytd_pay_periods |-> periods,
     ytd_gross |-> gross,
     ytd_pretax_deductions |-> pretax,
     ytd_posttax_deductions |-> posttax,
     ytd_federal_withheld |-> withheld]

Range(s) == {s[k] : k \in DOMAIN s}

\* Faulty variant: the placeholder rows start at one pay period.
create_template_one_period ==
    CsvFile(Range(TEMPLATE_HEADERS),
            << Row(<<"spouse_a">>, <<"weekly">>, <<"1">>, <<"0">>, <<"0">>, <<"0">>, <<"0">>),
               Row(<<"spouse_b">>, <<"biweekly">>, <<"1">>, <<"0">>, <<"0">>, <<"0">>, <<"0">>) >>)

\* create_template: the file it writes.
create_template ==
    CsvFile(Range(TEMPLATE_HEADERS),
            << Row(<<"spouse_a">>, <<"weekly">>, <<"0">>, <<"0">>, <<"0">>, <<"0">>, <<"0">>),
               Row(<<"spouse_b">>, <<"biweekly">>, <<"0">>, <<"0">>, <<"0">>, <<"0">>, <<"0">>) >>)

----------------------------------------------------------------------------
(* load_inputs                                                             *)

PaystubInput(spouse, frequency, periods, gross, pretax, posttax, withheld) ==
    [spouse |-> spouse,
     pay_frequency |-> frequency,
     ytd_pay_periods |-> periods,
     ytd_gross |-> gross,
     ytd_pretax_deductions |-> pretax,
     ytd_posttax_deductions |-> posttax,
     ytd_federal_withheld |-> withheld]

\* missing = [h for h in TEMPLATE_HEADERS if h not in reader.fieldnames]
missing_columns(f) == SelectSeq(TEMPLATE_HEADERS, LAMBDA h : h \notin f.fieldnames)

\* if not spouse: continue
skip_row(row) == text(strip(row.spouse)) = ""

\* pay_frequency = row["pay_frequency"].strip().lower()
row_frequency(row) == text(lower(strip(row.pay_frequency)))

\* if pay_frequency not in FREQUENCY_PERIODS: raise
frequency_supported(pay_frequency) == pay_frequency \in DOMAIN FREQUENCY_PERIODS

\* The numeric cells of a row all convert.
row_numbers_ok(row) ==
    /\ parse_int(row.ytd_pay_periods).ok
    /\ parse_float(row.ytd_gross).ok
    /\ parse_float(row.ytd_pretax_deductions).ok
    /\ parse_float(row.ytd_posttax_deductions).ok
    /\ parse_float(row.ytd_federal_withheld).ok

row_input(row) ==
    PaystubInput(text(strip(row.spouse)),
                 row_frequency(row),
                 parse_int(row.ytd_pay_periods).v,
                 parse_float(row.ytd_gross).v,
                 parse_float(row.ytd_pretax_deductions).v,
                 parse_float(row.ytd_posttax_deductions).v,
                 parse_float(row.ytd_federal_withheld).v)

\* The for-loop over the rows, from row k on: the first row that raises
\* ends it.
RECURSIVE read_rows(_, _, _)
read_rows(rows, k, acc) ==
    IF k > Len(rows) THEN [error |-> NoError, inputs |-> acc]
    ELSE IF skip_row(rows[k]) THEN read_rows(rows, k + 1, acc)
    ELSE IF ~frequency_supported(row_frequency(rows[k]))
         THEN [error |-> UnsupportedFrequency, inputs |-> <<>>]
    ELSE IF ~row_numbers_ok(rows[k])
         THEN [error |-> BadNumber, inputs |-> <<>>]
    ELSE read_rows(rows, k + 1, Append(acc, row_input(rows[k])))

\* Faulty variant: only more than two rows are rejected.
row_count_at_most_two(loaded) == Len(loaded) <= 2

\* if len(inputs) != 2: raise
row_count_ok(loaded) == Len(loaded) = 2

load_inputs(f) ==
    IF ~f.exists THEN [error |-> NoSuchFile, inputs |-> <<>>]
    ELSE IF missing_columns(f) # <<>> THEN [error |-> MissingColumns, inputs |-> <<>>]
    ELSE LET read == read_rows(f.rows, 1, <<>>)
         IN  IF read.error # NoError THEN read
             ELSE IF ~row_count_ok(read.inputs)
                  THEN [error |-> WrongRowCount, inputs |-> <<>>]
             ELSE read

----------------------------------------------------------------------------
(* annualize, compute_taxable_income, compute_results                      *)

\* Faulty variant: a period count of zero passes.
annualize_raises_zero_passes(ytd_periods) == ytd_periods < 0

\* if ytd_periods <= 0: raise ValueError
annualize_raises(ytd_periods) == ytd_periods <= 0

\* amount / ytd_periods * periods_per_year
annualize(amount, ytd_periods, periods_per_year) ==
    RMul(RDiv(amount, R(ytd_periods)), R(periods_per_year))

\* compute_taxable_income, the loop's body: max(0.0, annual_gross - annual_pretax)
taxable_income_of(entry) ==
    LET periods_per_year == FREQUENCY_PERIODS[entry.pay_frequency]
        annual_gross == annualize(entry.ytd_gross, entry.ytd_pay_periods, periods_per_year)
        annual_pretax ==
            annualize(entry.ytd_pretax_deductions, entry.ytd_pay_periods, periods_per_year)
    IN  RMax(Zero, RSub(annual_gross, annual_pretax))

\* taxable[entry.spouse] = taxable_income: a dict, one value per key.
dict_set(dict, key, value) ==
    [k \in DOMAIN dict \cup {key} |-> IF k = key THEN value ELSE dict[k]]

\* sum(dict.values())
RECURSIVE sum_values(_)
sum_values(dict) ==
    IF DOMAIN dict = {} THEN Zero
    ELSE LET k == CHOOSE x \in DOMAIN dict : TRUE
         IN  RAdd(dict[k], sum_values([x \in DOMAIN dict \ {k} |-> dict[x]]))

\* Faulty variant: the share is divided without the guard.
share_of_unguarded(spouse_taxable, total) == RDiv(spouse_taxable, total)

\* share = spouse_taxable / total_taxable if total_taxable > 0 else 0.0
share_of(spouse_taxable, total) ==
    IF RLt(Zero, total) THEN RDiv(spouse_taxable, total) ELSE Zero

\* Faulty variant: no floor at zero.
remaining_periods_unfloored(periods_per_year, ytd_pay_periods) ==
    periods_per_year - ytd_pay_periods

\* remaining_periods = max(0, periods_per_year - entry.ytd_pay_periods)
remaining_periods_of(periods_per_year, ytd_pay_periods) ==
    IF periods_per_year - ytd_pay_periods > 0 THEN periods_per_year - ytd_pay_periods ELSE 0

\* Faulty variant: the current period is counted among the remaining ones.
per_period_target_off_by_one(remaining_tax, remaining_periods) ==
    IF remaining_periods > 0 THEN RDiv(remaining_tax, R(remaining_periods + 1)) ELSE Zero

\* per_period_target = remaining_tax / remaining_periods if remaining_periods > 0 else 0.0
per_period_target_of(remaining_tax, remaining_periods) ==
    IF remaining_periods > 0 THEN RDiv(remaining_tax, R(remaining_periods)) ELSE Zero

\* gross_per_period = annual_gross / periods_per_year if periods_per_year else 0.0
gross_per_period_of(annual_gross, periods_per_year) ==
    IF periods_per_year # 0 THEN RDiv(annual_gross, R(periods_per_year)) ELSE Zero

\* withholding_rate = per_period_target / gross_per_period if gross_per_period else 0.0
withholding_rate_of(per_period_target, gross_per_period) ==
    IF gross_per_period # Zero THEN RDiv(per_period_target, gross_per_period) ELSE Zero

\* compute_results, the body of the loop over inputs: the TaxResult of entry.
tax_result(entry, taxable, total, tax) ==
    LET periods_per_year == FREQUENCY_PERIODS[entry.pay_frequency]
        annual_gross == annualize(entry.ytd_gross, entry.ytd_pay_periods, periods_per_year)
        annual_pretax ==
            annualize(entry.ytd_pretax_deductions, entry.ytd_pay_periods, periods_per_year)
        spouse_taxable == taxable[entry.spouse]
        share == share_of(spouse_taxable, total)
        target_tax == RMul(tax, share)
        remaining_periods == remaining_periods_of(periods_per_year, entry.ytd_pay_periods)
        remaining_tax == RSub(target_tax, entry.ytd_federal_withheld)
        per_period_target == per_period_target_of(remaining_tax, remaining_periods)
        gross_per_period == gross_per_period_of(annual_gross, periods_per_year)
        withholding_rate == withholding_rate_of(per_period_target, gross_per_period)
    IN  [spouse |-> entry.spouse,
         annualized_taxable_income |-> spouse_taxable,
         annualized_gross |-> annual_gross,
         annualized_pretax |-> annual_pretax,
         total_tax_share |-> target_tax,
         target_withholding_per_period |-> per_period_target,
         target_withholding_rate |-> withholding_rate,
         remaining_periods |-> remaining_periods]

\* A division of the loop's body raised ZeroDivisionError.
result_raises(r) ==
    \/ IsNaR(r.total_tax_share)
    \/ IsNaR(r.target_withholding_per_period)
    \/ IsNaR(r.target_withholding_rate)
    \/ IsNaR(r.annualized_gross)

----------------------------------------------------------------------------
(* The inputs the model runs the program on.                               *)

MaxRows == 3

MaxIncomeSteps == 8

DigitChars == <<"0", "1", "2", "3", "4", "5", "6", "7", "8", "9">>

\* The decimal text of an integer, one character per piece.
RECURSIVE DecNat(_)
DecNat(n) == IF n < 10 THEN <<DigitChars[n + 1]>>
             ELSE Append(DecNat(n \div 10), DigitChars[(n % 10) + 1])

Dec(n) == IF n < 0 THEN <<"-">> \o DecNat(-n) ELSE DecNat(n)

\* Rows a user's file may hold: the template's two rows, filled-in rows
\* (with padding and capitals), a row with a blank spouse, and rows with an
\* unsupported frequency, a non-positive or non-numeric period count.
FileRows ==
    { Row(<<"spouse_a">>, <<"weekly">>, <<"0">>, <<"0">>, <<"0">>, <<"0">>, <<"0">>),
      Row(<<"spouse_b">>, <<"biweekly">>, <<"0">>, <<"0">>, <<"0">>, <<"0">>, <<"0">>),
      Row(<<"spouse_a">>, <<"weekly">>, Dec(10), Dec(25000), Dec(2000), Dec(0), Dec(4000)),
      Row(<<"spouse_b">>, <<" ", "BIWEEKLY">>, Dec(10), Dec(25000), Dec(2000), Dec(500), Dec(40000)),
      Row(<<" ", "spouse_a", " ">>, <<"Monthly">>, Dec(12), Dec(30000), Dec(40000), Dec(0), Dec(0)),
      Row(<<" ">>, <<"daily">>, <<"n", "/", "a">>, Dec(0), Dec(0), Dec(0), Dec(0)),
      Row(<<"spouse_b">>, <<"daily">>, Dec(10), Dec(25000), Dec(0), Dec(0), Dec(0)),
      Row(<<"spouse_b">>, <<"monthly">>, Dec(-1), Dec(25000), Dec(0), Dec(0), Dec(0)),
      Row(<<"spouse_a">>, <<"weekly">>, <<"t", "e", "n">>, Dec(25000), Dec(0), Dec(0), Dec(0)) }

HeaderSets == {Range(TEMPLATE_HEADERS) \ s : s \in SUBSET {"spouse", "ytd_gross"}}

SeqsUpTo(S, n) == UNION {[1..k -> S] : k \in 0..n}

Files ==
    {CsvFile(h, r) : h \in HeaderSets, r \in SeqsUpTo(FileRows, MaxRows)} \cup {NoFile}

TaxYears == {2023, 2024}

Args == [create_template : BOOLEAN, input : BOOLEAN, tax_year : TaxYears]

\* Records load_inputs returns: any spouse names (equal or not), every
\* supported frequency, period counts below, at and above a year's periods.
InputRecords ==
    { PaystubInput(s, f, p, R(g), R(pre), Zero, R(w)) :
        s \in {"spouse_a", "spouse_b"},
        f \in DOMAIN FREQUENCY_PERIODS,
        p \in {0, 12, 60},
        g \in {0, 25000},
        pre \in {0, 30000},
        w \in {0, 40000} }

\* A schedule other than 2024's, with strictly increasing upper bounds.
SmallProfile ==
    [year |-> 0,
     standard_deduction_mfj |-> R(10000),
     brackets_mfj |-> << <<R(20000), Pct(10)>>,
                         <<R(50000), Pct(20)>>,
                         <<Inf, Pct(30)>> >>]

Profiles == {Profile2024, SmallProfile}

\* The incomes at which a bracket of the profile ends, before the deduction.
Boundaries(profile) ==
    { profile.standard_deduction_mfj.n + profile.brackets_mfj[k][1].n :
        k \in 1..(Len(profile.brackets_mfj) - 1) } \cup {profile.standard_deduction_mfj.n}

Incomes ==
    {-10000, -1, 0, 1, 100000, 129200}
    \cup {k * 100000 : k \in 0..MaxIncomeSteps}
    \cup UNION {{b - 1, b, b + 1} : b \in UNION {Boundaries(q) : q \in Profiles}}

----------------------------------------------------------------------------
(* The state machine.                                                      *)

EmptyDict == [k \in {} |-> Zero]

NoArgs == [create_template |-> FALSE, input |-> FALSE, tax_year |-> 0]

NoOutput == [kind |-> "none", total_taxable |-> Zero, total_tax |-> Zero]

FedIdle ==
    [pc |-> "idle", profile |-> Profile2024, x |-> Zero, y |-> Zero,
     tx |-> Zero, ty |-> Zero, slices |-> <<>>]

\* The state of a process that has not started: everything but the file.
Fresh ==
    /\ pc = "idle"
    /\ args = NoArgs
    /\ inputs = <<>>
    /\ idx = 0
    /\ taxable_by_spouse = EmptyDict
    /\ total_taxable = Zero
    /\ total_tax = Zero
    /\ results = <<>>
    /\ error = NoError
    /\ stdout = NoOutput
    /\ calls = <<>>

Init == Fresh /\ file \in Files /\ fed = FedIdle

\* main: --create-template PATH.
MainCreateTemplate ==
    /\ pc = "idle"
    /\ \E a \in Args : a.create_template /\ args' = a
    /\ file' = create_template
    /\ stdout' = [NoOutput EXCEPT !.kind = "template"]
    /\ calls' = <<"create_template">>
    /\ pc' = "done"
    /\ UNCHANGED <<inputs, idx, taxable_by_spouse, total_taxable, total_tax,
                   results, error, fed>>

\* main: neither --create-template nor --input: parser.error.
MainInputRequired ==
    /\ pc = "idle"
    /\ \E a \in Args : ~a.create_template /\ ~a.input /\ args' = a
    /\ error' = InputRequired
    /\ pc' = "done"
    /\ UNCHANGED <<file, inputs, idx, taxable_by_spouse, total_taxable, total_tax,
                   results, stdout, calls, fed>>

\* main: args.tax_year not in TAX_PROFILES.
MainUnsupportedYear ==
    /\ pc = "idle"
    /\ \E a \in Args :
          ~a.create_template /\ a.input /\ a.tax_year \notin DOMAIN TAX_PROFILES /\ args' = a
    /\ error' = UnsupportedYear
    /\ pc' = "done"
    /\ UNCHANGED <<file, inputs, idx, taxable_by_spouse, total_taxable, total_tax,
                   results, stdout, calls, fed>>

\* main: inputs = load_inputs(args.input), which returns or raises.
MainLoadInputs ==
    /\ pc = "idle"
    /\ \E a \in Args :
          ~a.create_template /\ a.input /\ a.tax_year \in DOMAIN TAX_PROFILES /\ args' = a
    /\ LET loaded == load_inputs(file)
       IN  /\ error' = loaded.error
           /\ inputs' = loaded.inputs
           /\ pc' = IF loaded.error = NoError THEN "compute_results" ELSE "done"
    /\ calls' = <<"load_inputs">>
    /\ UNCHANGED <<file, idx, taxable_by_spouse, total_taxable, total_tax,
                   results, stdout, fed>>

\* compute_results is entered, and calls compute_taxable_income.
ComputeResultsCall ==
    /\ pc = "compute_results"
    /\ pc' = "compute_taxable_income"
    /\ idx' = 1
    /\ taxable_by_spouse' = EmptyDict
    /\ calls' = calls \o <<"compute_results", "compute_taxable_income">>
    /\ UNCHANGED <<args, file, inputs, total_taxable, total_tax, results, error,
                   stdout, fed>>

\* compute_taxable_income, one entry: both annualize calls return.
TaxableIncomeStep ==
    /\ pc = "compute_taxable_income"
    /\ idx <= Len(inputs)
    /\ ~annualize_raises(inputs[idx].ytd_pay_periods)
    /\ taxable_by_spouse' =
          dict_set(taxable_by_spouse, inputs[idx].spouse, taxable_income_of(inputs[idx]))
    /\ idx' = idx + 1
    /\ calls' = calls \o <<"annualize", "annualize">>
    /\ UNCHANGED <<pc, args, file, inputs, total_taxable, total_tax, results, error,
                   stdout, fed>>

\* compute_taxable_income, one entry: the first annualize call raises.
TaxableIncomeRaise ==
    /\ pc = "compute_taxable_income"
    /\ idx <= Len(inputs)
    /\ annualize_raises(inputs[idx].ytd_pay_periods)
    /\ error' = BadPeriods
    /\ calls' = Append(calls, "annualize")
    /\ pc' = "done"
    /\ UNCHANGED <<args, file, inputs, idx, taxable_by_spouse, total_taxable,
                   total_tax, results, stdout, fed>>

\* compute_results: compute_taxable_income has returned; the sum, and the
\* joint tax.
JointTax ==
    /\ pc = "compute_taxable_income"
    /\ idx > Len(inputs)
    /\ total_taxable' = sum_values(taxable_by_spouse)
    /\ total_tax' = compute_federal_tax(sum_values(taxable_by_spouse),
                                        TAX_PROFILES[args.tax_year])
    /\ calls' = Append(calls, "compute_federal_tax")
    /\ idx' = 1
    /\ pc' = "results"
    /\ UNCHANGED <<args, file, inputs, taxable_by_spouse, results, error, stdout, fed>>

\* compute_results, one entry of the loop that builds the results.
ResultStep ==
    /\ pc = "results"
    /\ idx <= Len(inputs)
    /\ LET raised == annualize_raises(inputs[idx].ytd_pay_periods)
           r == tax_result(inputs[idx], taxable_by_spouse, total_taxable, total_tax)
       IN  IF raised \/ result_raises(r)
           THEN /\ error' = IF raised THEN BadPeriods ELSE DivisionByZero
                /\ pc' = "done"
                /\ UNCHANGED <<results, idx>>
           ELSE /\ results' = Append(results, r)
                /\ idx' = idx + 1
                /\ UNCHANGED <<pc, error>>
    /\ calls' = calls \o <<"annualize", "annualize">>
    /\ UNCHANGED <<args, file, inputs, taxable_by_spouse, total_taxable, total_tax,
                   stdout, fed>>

\* main: compute_results has returned; print_summary.
PrintSummary ==
    /\ pc = "results"
    /\ idx > Len(inputs)
    /\ LET printed_taxable ==
              IF results = <<>> THEN Zero
              ELSE sum_values([k \in DOMAIN results |-> results[k].annualized_taxable_income])
       IN  stdout' = [kind |-> "summary",
                      total_taxable |-> printed_taxable,
                      total_tax |-> compute_federal_tax(printed_taxable,
                                                        TAX_PROFILES[args.tax_year])]
    /\ calls' = calls \o <<"print_summary", "compute_federal_tax">>
    /\ pc' = "done"
    /\ UNCHANGED <<args, file, inputs, idx, taxable_by_spouse, total_taxable,
                   total_tax, results, error, fed>>

\* The process ends; the file stays, and the next run starts afresh.
Exit ==
    /\ pc = "done"
    /\ pc' = "idle"
    /\ args' = NoArgs
    /\ inputs' = <<>>
    /\ idx' = 0
    /\ taxable_by_spouse' = EmptyDict
    /\ total_taxable' = Zero
    /\ total_tax' = Zero
    /\ results' = <<>>
    /\ error' = NoError
    /\ stdout' = NoOutput
    /\ calls' = <<>>
    /\ UNCHANGED <<file, fed>>

Next ==
    \/ MainCreateTemplate
    \/ MainInputRequired
    \/ MainUnsupportedYear
    \/ MainLoadInputs
    \/ ComputeResultsCall
    \/ TaxableIncomeStep
    \/ TaxableIncomeRaise
    \/ JointTax
    \/ ResultStep
    \/ PrintSummary
    \/ Exit

Spec == Init /\ [][Next]_vars

----------------------------------------------------------------------------
(* compute_results on every pair of records load_inputs can return.        *)

EstimateArgs == [create_template |-> FALSE, input |-> TRUE, tax_year |-> 2024]

InitResults ==
    /\ pc = "compute_results"
    /\ args = EstimateArgs
    /\ file = NoFile
    /\ inputs \in {<<a, b>> : a \in InputRecords, b \in InputRecords}
    /\ idx = 0
    /\ taxable_by_spouse = EmptyDict
    /\ total_taxable = Zero
    /\ total_tax = Zero
    /\ results = <<>>
    /\ error = NoError
    /\ stdout = NoOutput
    /\ calls = <<"load_inputs">>
    /\ fed = FedIdle

NextResults ==
    \/ ComputeResultsCall
    \/ TaxableIncomeStep
    \/ TaxableIncomeRaise
    \/ JointTax
    \/ ResultStep
    \/ PrintSummary

SpecResults == InitResults /\ [][NextResults]_vars

----------------------------------------------------------------------------
(* compute_federal_tax called on two incomes, under each schedule.         *)

InitFederal ==
    /\ Fresh
    /\ file = NoFile
    /\ fed \in {[FedIdle EXCEPT !.pc = "call", !.profile = q, !.x = R(a), !.y = R(b)] :
                   q \in Profiles, a \in Incomes, b \in Incomes}

FederalCall ==
    /\ fed.pc = "call"
    /\ fed' = [fed EXCEPT !.pc = "returned",
                          !.tx = compute_federal_tax(fed.x, fed.profile),
                          !.ty = compute_federal_tax(fed.y, fed.profile),
                          !.slices = federal_tax_walk(fed.x, fed.profile).slices]
    /\ UNCHANGED <<pc, args, file, inputs, idx, taxable_by_spouse, total_taxable,
                   total_tax, results, error, stdout, calls>>

NextFederal == FederalCall

SpecFederal == InitFederal /\ [][NextFederal]_vars

----------------------------------------------------------------------------
(* Properties.                                                             *)

ComputationSteps ==
    {"annualize", "compute_taxable_income", "compute_federal_tax", "compute_results"}

Entered == Range(calls)

\* The run went through load_inputs.
Loaded == calls # <<>> /\ calls[1] = "load_inputs"

\* The sum of the two records' annualized taxable incomes.
JointTaxable == RAdd(taxable_income_of(inputs[1]), taxable_income_of(inputs[2]))

RowsRead(f) == Cardinality({k \in DOMAIN f.rows : ~skip_row(f.rows[k])})

\* C1: when compute_results has returned for two accepted records whose
\* joint annualized taxable income is > 0, the two total_tax_share values
\* sum to compute_federal_tax of the sum of the two annualized taxable
\* incomes.
C1_ApportionmentConservation ==
    (/\ Len(results) = 2
     /\ Len(inputs) = 2
     /\ error = NoError
     /\ RLt(Zero, JointTaxable))
    => RAdd(results[1].total_tax_share, results[2].total_tax_share)
          = compute_federal_tax(JointTaxable, TAX_PROFILES[args.tax_year])

\* C2 as stated: a run that ended in a validation error (frequency, period
\* count, row count, columns) has executed no computation step.
C2_AllValidationBeforeComputation ==
    (pc = "done" /\ error \in {UnsupportedFrequency, BadPeriods, WrongRowCount, MissingColumns})
    => Entered \cap ComputationSteps = {}

\* C2 as amended: the checks of load_inputs (columns, frequency, row count)
\* come before every computation step; the check of ytd_pay_periods is made
\* by annualize, after compute_results and compute_taxable_income were
\* entered, and before compute_federal_tax, any result and any output.
C2_ValidationOrder ==
    /\ (Entered \cap ComputationSteps # {})
          => /\ missing_columns(file) = <<>>
             /\ Len(inputs) = 2
             /\ \A k \in DOMAIN inputs : inputs[k].pay_frequency \in DOMAIN FREQUENCY_PERIODS
    /\ ("compute_federal_tax" \in Entered)
          => \A k \in DOMAIN inputs : inputs[k].ytd_pay_periods > 0
    /\ (error \in {UnsupportedFrequency, WrongRowCount, MissingColumns})
          => Entered \cap ComputationSteps = {}
    /\ (error = BadPeriods)
          => /\ {"compute_results", "compute_taxable_income", "annualize"} \subseteq Entered
             /\ "compute_federal_tax" \notin Entered
             /\ results = <<>>
             /\ stdout = NoOutput

\* The period count of the second record is rejected after annualize has
\* run on the first.
C2_Witness ==
    /\ pc = "done"
    /\ error = BadPeriods
    /\ idx = 2
    /\ inputs[1].ytd_pay_periods > 0

\* C3 as stated: with all columns present, a file whose number of data rows
\* is not two ends in an error and never reaches compute_results.
C3_ExactlyTwoDataRows ==
    (Loaded /\ file.exists /\ missing_columns(file) = <<>> /\ Len(file.rows) # 2)
    => /\ "compute_results" \notin Entered
       /\ (pc = "done") => error # NoError

\* C3 as amended: rows whose spouse is blank after stripping are skipped;
\* with all columns present, a file whose number of rows with a non-blank
\* spouse is not two ends in an error and never reaches compute_results.
C3_ExactlyTwoSpouseRows ==
    (Loaded /\ file.exists /\ missing_columns(file) = <<>> /\ RowsRead(file) # 2)
    => /\ "compute_results" \notin Entered
       /\ pc = "done"
       /\ error # NoError

\* Three rows with a spouse: rejected for the row count.
C3_Witness ==
    /\ pc = "done"
    /\ error = WrongRowCount
    /\ RowsRead(file) = 3

Slice(amount, percent, part) == <<R(amount), Pct(percent), R(part)>>

\* C4 as stated: compute_federal_tax(100000) under the 2024 schedule is
\* 12,615: 22,000 at 10%, 67,450 at 12%, 10,550 at 22%.
C4_TaxOf100000 ==
    (fed.pc = "returned" /\ fed.profile = Profile2024 /\ fed.x = R(100000))
    => /\ fed.tx = R(12615)
       /\ fed.slices = <<Slice(22000, 10, 2200), Slice(67450, 12, 8094),
                         Slice(10550, 22, 2321)>>

\* C4 as amended: the function subtracts the standard deduction itself, so
\* the 12,615 and its three slices are the tax of 129,200 (100,000 after the
\* deduction); the tax of 100,000 is 8,056: 22,000 at 10%, 48,800 at 12%.
C4_TaxOf129200 ==
    /\ (fed.pc = "returned" /\ fed.profile = Profile2024 /\ fed.x = R(129200))
          => /\ fed.tx = R(12615)
             /\ fed.slices = <<Slice(22000, 10, 2200), Slice(67450, 12, 8094),
                               Slice(10550, 22, 2321)>>
    /\ (fed.pc = "returned" /\ fed.profile = Profile2024 /\ fed.x = R(100000))
          => /\ fed.tx = R(8056)
             /\ fed.slices = <<Slice(22000, 10, 2200), Slice(48800, 12, 5856)>>

C4_Witness ==
    /\ fed.pc = "returned"
    /\ fed.profile = Profile2024
    /\ fed.x = R(129200)
    /\ Len(fed.slices) = 3

\* The rate of the schedule's last bracket.
TopRate(profile) == profile.brackets_mfj[Len(profile.brackets_mfj)][2]

\* C5: for incomes x <= y the tax of x is at most the tax of y, and the tax
\* of y exceeds it by at most (y - x) times the top marginal rate.
C5_BracketMonotonicity ==
    (fed.pc = "returned" /\ RLe(fed.x, fed.y))
    => /\ RLe(fed.tx, fed.ty)
       /\ RLe(RSub(fed.ty, fed.tx), RMul(RSub(fed.y, fed.x), TopRate(fed.profile)))

\* Two incomes on either side of the end of the first 2024 bracket.
C5_Witness ==
    /\ fed.pc = "returned"
    /\ fed.profile = Profile2024
    /\ fed.x = R(51199)
    /\ fed.y = R(51201)
    /\ RLt(fed.tx, fed.ty)

\* C6: the tax is 0 for every income not above the standard deduction, and
\* never negative.
C6_ZeroIncomeFloor ==
    (fed.pc = "returned")
    => /\ RLe(fed.x, fed.profile.standard_deduction_mfj) => fed.tx = Zero
       /\ RLe(fed.y, fed.profile.standard_deduction_mfj) => fed.ty = Zero
       /\ RLe(Zero, fed.tx)
       /\ RLe(Zero, fed.ty)

\* An income equal to the deduction, and a negative one.
C6_Witness ==
    /\ fed.pc = "returned"
    /\ fed.x = fed.profile.standard_deduction_mfj
    /\ RLt(fed.y, Zero)
    /\ fed.tx = Zero
    /\ fed.ty = Zero

BothTaxableZero ==
    /\ Len(inputs) = 2
    /\ \A k \in 1..2 : /\ inputs[k].ytd_pay_periods > 0
                       /\ RLe(inputs[k].ytd_gross, inputs[k].ytd_pretax_deductions)

\* C7: when both spouses' gross is not above their pretax deductions (and
\* ytd_pay_periods > 0), compute_results raises nothing, and returns two
\* results whose total_tax_share is 0.
C7_ZeroJointIncome ==
    BothTaxableZero
    => /\ error = NoError
       /\ \A k \in DOMAIN results : results[k].total_tax_share = Zero
       /\ (pc = "done") => (Len(results) = 2 /\ stdout.kind = "summary")

C7_Witness ==
    /\ BothTaxableZero
    /\ pc = "done"
    /\ Len(results) = 2
    /\ total_taxable = Zero

\* C8: remaining_periods is never negative, and a record whose
\* ytd_pay_periods is at least the periods per year gets remaining_periods
\* 0, a per-period target of 0 and a rate of 0.
C8_RemainingPeriodsFloor ==
    \A k \in DOMAIN results :
        /\ results[k].remaining_periods >= 0
        /\ (inputs[k].ytd_pay_periods >= FREQUENCY_PERIODS[inputs[k].pay_frequency])
              => /\ results[k].remaining_periods = 0
                 /\ results[k].target_withholding_per_period = Zero
                 /\ results[k].target_withholding_rate = Zero

\* More periods paid than the year has, with tax still due.
C8_Witness ==
    \E k \in DOMAIN results :
        /\ inputs[k].ytd_pay_periods > FREQUENCY_PERIODS[inputs[k].pay_frequency]
        /\ RLt(inputs[k].ytd_federal_withheld, results[k].total_tax_share)
        /\ results[k].target_withholding_per_period = Zero

\* C9: with periods remaining, the per-period target times the remaining
\* periods is the spouse's share minus the tax withheld so far, and the
\* target is negative exactly when more was withheld than the share.
C9_TargetCoversRemainingTax ==
    \A k \in DOMAIN results :
        (results[k].remaining_periods > 0)
        => /\ RMul(results[k].target_withholding_per_period, R(results[k].remaining_periods))
                 = RSub(results[k].total_tax_share, inputs[k].ytd_federal_withheld)
           /\ RLt(results[k].target_withholding_per_period, Zero)
                 <=> RLt(results[k].total_tax_share, inputs[k].ytd_federal_withheld)

\* A spouse with a positive share who has had more than it withheld.
C9_Witness ==
    \E k \in DOMAIN results :
        /\ results[k].remaining_periods > 0
        /\ RLt(Zero, results[k].total_tax_share)
        /\ RLt(results[k].target_withholding_per_period, Zero)

\* C10: an estimate run on the file create_template writes passes
\* load_inputs with two records and ends in the error annualize raises for
\* ytd_pay_periods = 0, with no joint tax computed, no result and no output.
C10_TemplateThenEstimate ==
    (Loaded /\ file = create_template)
    => /\ error \in {NoError, BadPeriods}
       /\ Len(inputs) = 2
       /\ pc \in {"compute_results", "compute_taxable_income", "done"}
       /\ (pc = "done") => error = BadPeriods
       /\ "compute_federal_tax" \notin Entered
       /\ results = <<>>
       /\ stdout = NoOutput

C10_Witness ==
    /\ Loaded
    /\ file = create_template
    /\ pc = "done"
    /\ error = BadPeriods
    /\ calls = <<"load_inputs", "compute_results", "compute_taxable_income", "annualize">>

====
